---- MODULE Spec2Model ----
(***************************************************************************)
(* match_err: the four macros of src/lib.rs (match_err, match_if_err,      *)
(* assert_if_error, assert_error) as a state machine.  One behaviour is    *)
(* one macro invocation: the macro matcher picks a rule and transcribes    *)
(* it (compile time), then the expanded expression is evaluated step by    *)
(* step (run time).                                                        *)
(***************************************************************************)
EXTENDS Integers, Sequences, FiniteSets, TLC

\* Largest number of variant arms written in an arm block.
MaxArms == 3

----------------------------------------------------------------------------
(* Values: the user enumeration E, another error type, erased errors.      *)

\* enum Error { NotFound, Custom(String), Pair(String, String), Timeout }
\* (NotFound and Custom are the documented ones; Pair has two positional
\* fields; Timeout is a variant no arm of the model names).
Arity(variant) ==
    CASE variant = "Custom" -> 1
      [] variant = "Pair" -> 2
      [] OTHER -> 0

\* An erased error (anyhow::Error): the concrete type it carries and the value.
Erased(ty, variant, payload) == [ty |-> ty, variant |-> variant, payload |-> payload]

NoErr == Erased("none", "", <<>>)

ErasedErrors ==
    { Erased("Error", "NotFound", <<>>),
      Erased("Error", "Custom", <<"x">>),
      Erased("Error", "Custom", <<"internal">>),
      Erased("Error", "Custom", <<"other">>),
      Erased("Error", "Pair", <<"ab", "c">>),
      Erased("Error", "Timeout", <<>>),
      Erased("Other", "NotFound", <<>>) }

\* The value of the first argument: an erased error itself ("Any"), or a
\* Result<(), anyhow::Error> ("Ok" / "Err").
NoInput == [tag |-> "none", err |-> NoErr]

AnyInputs == { [tag |-> "Any", err |-> x] : x \in ErasedErrors }

ResultInputs == { [tag |-> "Ok", err |-> NoErr] } \cup { [tag |-> "Err", err |-> x] : x \in ErasedErrors }

\* How the first argument is written: a variable by value (err) or a borrow (&err).
Modes == { "place", "borrow" }

----------------------------------------------------------------------------
(* Expressions of the arms and their values.                               *)

Expr(k, n, id) == [k |-> k, n |-> n, id |-> id]

NoExpr == Expr("none", 0, "")
Const(n) == Expr("const", n, "")
LenOf(id) == Expr("len", 0, id)
UnitExpr == Expr("unit", 0, "")
\* The `{}` the elision rules write for the missing default.
EmptyBlock == Expr("block", 0, "")

Val(t, v) == [t |-> t, v |-> v]
NoVal == Val("none", 0)
Unit == Val("Unit", 0)

ExprType(ex) == IF ex.k \in { "const", "len" } THEN "Int" ELSE "Unit"

Lookup(env, id) == env[CHOOSE i \in 1..Len(env) : env[i].id = id].val

EvalExpr(ex, env) ==
    CASE ex.k = "const" -> Val("Int", ex.n)
      [] ex.k = "len" -> Val("Int", Len(Lookup(env, ex.id)))
      [] OTHER -> Unit

----------------------------------------------------------------------------
(* Tokens of an arm block.                                                 *)

Arm(variant, inner, ex) == [kind |-> "arm", variant |-> variant, inner |-> inner, expr |-> ex]
Comma == [kind |-> "comma", variant |-> "", inner |-> <<>>, expr |-> NoExpr]
Default(ex) == [kind |-> "default", variant |-> "_", inner |-> <<>>, expr |-> ex]

WrittenArms ==
    { Arm("NotFound", <<>>, Const(1)),
      Arm("Custom", <<"m">>, LenOf("m")),
      Arm("Custom", <<"_">>, Const(2)),
      Arm("Custom", <<"m">>, Const(2)),
      Arm("Pair", <<"a", "b">>, LenOf("b")),
      Arm("NotFound", <<>>, UnitExpr),
      Arm("Custom", <<"m">>, UnitExpr) }

WrittenDefaults == { Default(Const(2)), Default(Const(3)), Default(UnitExpr) }

\* What may follow the arms in a written block.
WrittenTails ==
    { <<>>, <<Comma>> }
      \cup { <<Comma, d>> : d \in WrittenDefaults }
      \cup { <<d>> : d \in WrittenDefaults }
      \cup { <<Comma, d, Comma>> : d \in WrittenDefaults }

RECURSIVE Join(_)
Join(armSeq) ==
    IF Len(armSeq) = 0 THEN <<>>
    ELSE IF Len(armSeq) = 1 THEN <<armSeq[1]>>
    ELSE <<armSeq[1], Comma>> \o Join(Tail(armSeq))

ArmSeqs == UNION { [1..n -> WrittenArms] : n \in 0..MaxArms }

WrittenBlocks == { Join(armSeq) \o t : armSeq \in ArmSeqs, t \in WrittenTails }

----------------------------------------------------------------------------
(* The macro matcher: the two rules match_err and match_if_err share.      *)

\* `_` is not matched by an `ident` fragment.
IsIdent(tok) == tok # "_"

\* $variant:ident $( ( $($inner:ident),* ) )? => $arm:expr
ArmFragment(item) ==
    /\ item.kind = "arm"
    /\ IsIdent(item.variant)
    /\ \A j \in 1..Len(item.inner) : IsIdent(item.inner[j])

\* $( ... ),* : zero or more arm fragments separated by commas.
SepList(toks) ==
    \/ Len(toks) = 0
    \/ /\ Len(toks) % 2 = 1
       /\ \A i \in 1..Len(toks) :
            IF i % 2 = 1 THEN ArmFragment(toks[i]) ELSE toks[i].kind = "comma"

\* { $( ... ),*, _ => $default:expr }
MatchesDefaultRule(toks) ==
    /\ Len(toks) >= 2
    /\ toks[Len(toks)].kind = "default"
    /\ toks[Len(toks) - 1].kind = "comma"
    /\ SepList(SubSeq(toks, 1, Len(toks) - 2))

\* { $( ... ),* $(,)? }
MatchesElidedRule(toks) ==
    \/ SepList(toks)
    \/ /\ Len(toks) >= 1
       /\ toks[Len(toks)].kind = "comma"
       /\ SepList(SubSeq(toks, 1, Len(toks) - 1))

\* The arms the repetition captured, in source order.
IsArmToken(tok) == tok.kind = "arm"

CapturedArms(toks) == SelectSeq(toks, IsArmToken)

CapturedDefault(toks) == toks[Len(toks)].expr

\* { $( $variant $( ( $($inner),* ) )? => $arm ),*, _ => <default> }
Transcribe(armSeq, dfltExpr) == Join(armSeq) \o <<Comma, Default(dfltExpr)>>

\* The arms and the default of one match must have one type, and an arm binds
\* as many identifiers as its variant has fields.
Unifies(armSeq, dfltExpr) ==
    /\ \A i \in 1..Len(armSeq) : ExprType(armSeq[i].expr) = ExprType(dfltExpr)
    /\ \A i \in 1..Len(armSeq) : Len(armSeq[i].inner) = Arity(armSeq[i].variant)

----------------------------------------------------------------------------
(* Run-time helpers.                                                       *)

\* A downcast that does not test the carried type.
downcast_ref_any_type(any, ty) == [some |-> TRUE, val |-> any]

\* anyhow::Error::downcast_ref::<ty>(): Some(&value) iff the carried type is ty.
downcast_ref(any, ty) ==
    IF any.ty = ty THEN [some |-> TRUE, val |-> any] ELSE [some |-> FALSE, val |-> NoErr]

NoneE == [some |-> FALSE, val |-> NoErr]

\* match e { $ty::$variant(..) => .., ..., _ => .. }: the first arm whose variant
\* is the carried one, or 0 for the `_` arm.
FirstMatch(armSeq, variant) ==
    IF \E i \in 1..Len(armSeq) : armSeq[i].variant = variant
    THEN CHOOSE i \in 1..Len(armSeq) :
            /\ armSeq[i].variant = variant
            /\ \A j \in 1..(i - 1) : armSeq[j].variant # variant
    ELSE 0

\* The identifiers bound to the payload's fields in reverse order.
Bind_reversed(inner, payload) ==
    [i \in 1..Len(inner) |-> [id |-> inner[i], val |-> payload[Len(inner) + 1 - i]]]

\* ( $(ref $inner),* ): the identifiers bound to the payload's fields, in order.
Bind(inner, payload) == [i \in 1..Len(inner) |-> [id |-> inner[i], val |-> payload[i]]]

\* An equality that compares the variant alone.
EqualsExpected_variant_only(val, exp) == val.variant = exp.variant

\* e == &<$ty>::$variant $( ( $inner ) )?  under the derived PartialEq.
EqualsExpected(val, exp) == val.variant = exp.variant /\ val.payload = exp.payload

Expected(variant, payload) == [variant |-> variant, payload |-> payload]
NoExpected == Expected("", <<>>)

Expecteds ==
    { Expected("NotFound", <<>>),
      Expected("Custom", <<"internal">>),
      Expected("Custom", <<"x">>) }

\* The message arguments: none, or a user message.
UserMessages == { "", "invalid" }

Panic(raised, msg) == [raised |-> raised, msg |-> msg]
NoPanic == Panic(FALSE, "")

\* An assertion failure that drops the message arguments.
AssertFalseMessage_dropped(msg) == "assertion failed: false"

\* assert!(false $(, $($arg)+)?): the user message when given, else the
\* message assert! builds from the condition.
AssertFalseMessage(msg) == IF msg = "" THEN "assertion failed: false" ELSE msg

----------------------------------------------------------------------------
(* The macros as functions of the first argument's value and the arm       *)
(* block: the arm evaluated (0: the default, -1: no rule matches) and the  *)
(* value of the invocation.                                                *)

Outcome(arm, val) == [arm |-> arm, value |-> val]

RECURSIVE match_err(_, _)
match_err(x, toks) ==
    IF MatchesDefaultRule(toks)
    THEN LET armSeq == CapturedArms(toks)
             r == downcast_ref(x, "Error")
             k == IF r.some THEN FirstMatch(armSeq, r.val.variant) ELSE 0
         IN  IF k # 0
             THEN Outcome(k, EvalExpr(armSeq[k].expr, Bind(armSeq[k].inner, r.val.payload)))
             ELSE Outcome(0, EvalExpr(CapturedDefault(toks), <<>>))
    ELSE IF MatchesElidedRule(toks)
    THEN match_err(x, Transcribe(CapturedArms(toks), EmptyBlock))
    ELSE Outcome(-1, NoVal)

RECURSIVE match_if_err(_, _)
match_if_err(res, toks) ==
    IF MatchesDefaultRule(toks)
    THEN IF res.tag = "Err"
         THEN match_err(res.err, Transcribe(CapturedArms(toks), CapturedDefault(toks)))
         ELSE Outcome(0, EvalExpr(CapturedDefault(toks), <<>>))
    ELSE IF MatchesElidedRule(toks)
    THEN match_if_err(res, Transcribe(CapturedArms(toks), EmptyBlock))
    ELSE Outcome(-1, NoVal)

\* assert_error as a function: the assertion failure it raises, if any.
assert_error(x, exp, msg) ==
    LET r == downcast_ref(x, "Error")
    IN  IF r.some /\ EqualsExpected(r.val, exp)
        THEN NoPanic
        ELSE Panic(TRUE, AssertFalseMessage(msg))

assert_if_error(res, exp, msg) ==
    IF res.tag = "Err"
    THEN assert_error(res.err, exp, msg)
    ELSE Panic(TRUE, "not an error")

----------------------------------------------------------------------------
(* State.                                                                  *)

VARIABLES
    macro,      \* the macro the caller invoked
    written,    \* the arm block as the caller wrote it (match forms)
    expected,   \* the expected variant (assert forms)
    umsg,       \* the message argument (assert forms), "" when absent
    form,       \* the macro invocation being expanded now
    block,      \* its arm block
    wrapped,    \* the expansion is inside `if let Err(e) = $any { .. } else { .. }`
    outerDflt,  \* the $default of that else branch
    arms,       \* the arms of the expanded match
    dflt,       \* the $default of the expanded match_err
    pc,         \* where the invocation is
    mode,       \* how the first argument is written
    input,      \* the value of the first argument, once evaluated
    any,        \* the erased error downcast_ref is called on
    e,          \* what downcast_ref returned
    sel,        \* the arm the match selected (0: the `_` arm)
    site,       \* which copy of $default is to be evaluated
    env,        \* the bindings of the selected arm
    evalCount,  \* evaluations of the first argument
    armLog,     \* the arm expressions evaluated, in order (0: the default)
    value,      \* the value of the invocation
    owner,      \* who owns the erased error the first argument carries
    usable,     \* the caller may still use the variable given as first argument
    panic       \* the assertion failure raised, if any

vars == << macro, written, expected, umsg, form, block, wrapped, outerDflt, arms, dflt,
           pc, mode, input, any, e, sel, site, env, evalCount, armLog, value, owner, usable, panic >>

compileVars == << form, block, wrapped, outerDflt, arms, dflt >>
runVars == << mode, input, any, e, sel, site, env, evalCount, armLog, value, owner, usable, panic >>
callVars == << macro, written, expected, umsg >>

MatchForms == { "match_err", "match_if_err" }
AssertForms == { "assert_error", "assert_if_error" }

Init ==
    /\ macro \in MatchForms \cup AssertForms
    /\ IF macro \in MatchForms
       THEN written \in WrittenBlocks /\ expected = NoExpected /\ umsg = ""
       ELSE written = <<>> /\ expected \in Expecteds /\ umsg \in UserMessages
    /\ form = macro
    /\ block = written
    /\ wrapped = FALSE
    /\ outerDflt = NoExpr
    /\ arms = <<>>
    /\ dflt = NoExpr
    /\ pc = "call"
    /\ mode = "none"
    /\ input = NoInput
    /\ any = NoErr
    /\ e = NoneE
    /\ sel = 0
    /\ site = "none"
    /\ env = <<>>
    /\ evalCount = 0
    /\ armLog = <<>>
    /\ value = NoVal
    /\ owner = "caller"
    /\ usable = TRUE
    /\ panic = NoPanic

----------------------------------------------------------------------------
(* Compile time: the rules of the macros.                                  *)

\* match_err, first rule: the expansion proper.
ExpandMatchErr ==
    /\ pc = "call" /\ form = "match_err"
    /\ MatchesDefaultRule(block)
    /\ arms' = CapturedArms(block)
    /\ dflt' = CapturedDefault(block)
    /\ pc' = "typecheck"
    /\ UNCHANGED << form, block, wrapped, outerDflt >>
    /\ UNCHANGED << callVars, runVars >>

\* An elision rule that does not forward the arms.
ElideMatchErr_drops_arms ==
    /\ pc = "call" /\ form = "match_err"
    /\ ~MatchesDefaultRule(block)
    /\ MatchesElidedRule(block)
    /\ block' = Transcribe(<<>>, EmptyBlock)
    /\ UNCHANGED << form, wrapped, outerDflt, arms, dflt, pc >>
    /\ UNCHANGED << callVars, runVars >>

\* match_err, second rule: no default written; invoke match_err again with `_ => {}`.
ElideMatchErr ==
    /\ pc = "call" /\ form = "match_err"
    /\ ~MatchesDefaultRule(block)
    /\ MatchesElidedRule(block)
    /\ block' = Transcribe(CapturedArms(block), EmptyBlock)
    /\ UNCHANGED << form, wrapped, outerDflt, arms, dflt, pc >>
    /\ UNCHANGED << callVars, runVars >>

\* match_if_err, first rule: if let Err(e) = $any { match_err!(e, ..) } else { $default }
ExpandMatchIfErr ==
    /\ pc = "call" /\ form = "match_if_err"
    /\ MatchesDefaultRule(block)
    /\ wrapped' = TRUE
    /\ outerDflt' = CapturedDefault(block)
    /\ form' = "match_err"
    /\ block' = Transcribe(CapturedArms(block), CapturedDefault(block))
    /\ UNCHANGED << arms, dflt, pc >>
    /\ UNCHANGED << callVars, runVars >>

\* match_if_err, second rule: no default written; invoke match_if_err again with `_ => {}`.
ElideMatchIfErr ==
    /\ pc = "call" /\ form = "match_if_err"
    /\ ~MatchesDefaultRule(block)
    /\ MatchesElidedRule(block)
    /\ block' = Transcribe(CapturedArms(block), EmptyBlock)
    /\ UNCHANGED << form, wrapped, outerDflt, arms, dflt, pc >>
    /\ UNCHANGED << callVars, runVars >>

\* No rule of the macro matches the arm block.
NoRuleMatches ==
    /\ pc = "call" /\ form \in MatchForms
    /\ ~MatchesDefaultRule(block)
    /\ ~MatchesElidedRule(block)
    /\ pc' = "compile_error"
    /\ UNCHANGED << callVars, compileVars, runVars >>

\* The expanded if/else and match are type checked.
TypeCheck ==
    /\ pc = "typecheck"
    /\ pc' = IF /\ Unifies(arms, dflt)
                /\ wrapped => ExprType(outerDflt) = ExprType(dflt)
             THEN "ready" ELSE "compile_error"
    /\ UNCHANGED << callVars, compileVars, runVars >>

\* assert_if_error: if let Err(err) = $var { assert_error!(err, ..) } else { assert!(false, ..) }
ExpandAssertIfError ==
    /\ pc = "call" /\ form = "assert_if_error"
    /\ wrapped' = TRUE
    /\ form' = "assert_error"
    /\ UNCHANGED << block, outerDflt, arms, dflt, pc >>
    /\ UNCHANGED << callVars, runVars >>

\* assert_error: match $var.downcast_ref::<$ty>() { .. }
ExpandAssertError ==
    /\ pc = "call" /\ form = "assert_error"
    /\ pc' = "ready"
    /\ UNCHANGED << callVars, compileVars, runVars >>

----------------------------------------------------------------------------
(* Run time: the expanded expression, step by step.                        *)

\* A pattern that never moves out of what it is matched against.
PatternMoves_never(m) == FALSE

\* The pattern Err(e) of `if let Err(e) = $any` moves out of $any when $any is
\* a place of type Result (a variable not usable afterwards, whichever branch
\* is taken) and borrows when $any is a borrow.
PatternMoves(m) == m = "place"

\* Who owns the error once e is bound: e itself (the error has moved into the
\* expansion), or still the caller.
BindingOwner(m) == IF PatternMoves(m) THEN "macro" ELSE "caller"

\* The copy of $default at a site: the else of `if let Err`, or one of the two
\* copies match_err writes.
DefaultAt(s) == IF s = "not_err" THEN outerDflt ELSE dflt

\* The first argument ($any / $var) is evaluated.
EvalInput ==
    /\ pc = "ready"
    /\ \E m \in Modes, v \in (IF wrapped THEN ResultInputs ELSE AnyInputs) :
          /\ mode' = m
          /\ input' = v
          /\ any' = IF wrapped THEN NoErr ELSE v.err
    /\ evalCount' = evalCount + 1
    /\ pc' = IF wrapped THEN "if_let" ELSE "downcast"
    /\ UNCHANGED << e, sel, site, env, armLog, value, owner, panic >>
    /\ UNCHANGED usable
    /\ UNCHANGED << callVars, compileVars >>

\* An unwrapping that evaluates $any a second time to take the error out.
IfLetErr_reevaluates ==
    /\ pc = "if_let"
    /\ input.tag = "Err"
    /\ any' = input.err
    /\ owner' = BindingOwner(mode)
    /\ evalCount' = evalCount + 1
    /\ pc' = "downcast"
    /\ UNCHANGED << mode, input, e, sel, site, env, armLog, value, panic >>
    /\ usable' = ~PatternMoves(mode)
    /\ UNCHANGED << callVars, compileVars >>

\* if let Err(e) = $any { .. }: the result is an error.
IfLetErr ==
    /\ pc = "if_let"
    /\ input.tag = "Err"
    /\ any' = input.err
    /\ owner' = BindingOwner(mode)
    /\ pc' = "downcast"
    /\ UNCHANGED << mode, input, e, sel, site, env, evalCount, armLog, value, panic >>
    /\ usable' = ~PatternMoves(mode)
    /\ UNCHANGED << callVars, compileVars >>

\* A success branch that evaluates nothing.
MatchIfErrElse_skips ==
    /\ pc = "if_let" /\ form = "match_err"
    /\ input.tag # "Err"
    /\ pc' = "exit"
    /\ UNCHANGED << mode, input, any, e, sel, site, env, evalCount, armLog, value, owner, panic >>
    /\ usable' = ~PatternMoves(mode)
    /\ UNCHANGED << callVars, compileVars >>

\* match_if_err: .. else { $default }
MatchIfErrElse ==
    /\ pc = "if_let" /\ form = "match_err"
    /\ input.tag # "Err"
    /\ site' = "not_err"
    /\ pc' = "default"
    /\ UNCHANGED << mode, input, any, e, sel, env, evalCount, armLog, value, owner, panic >>
    /\ usable' = ~PatternMoves(mode)
    /\ UNCHANGED << callVars, compileVars >>

\* A success branch that fails with the caller's message arguments.
AssertIfErrorElse_user_message ==
    /\ pc = "if_let" /\ form = "assert_error"
    /\ input.tag # "Err"
    /\ panic' = Panic(TRUE, AssertFalseMessage(umsg))
    /\ pc' = "exit"
    /\ UNCHANGED << mode, input, any, e, sel, site, env, evalCount, armLog, value, owner >>
    /\ usable' = ~PatternMoves(mode)
    /\ UNCHANGED << callVars, compileVars >>

\* assert_if_error: .. else { assert!(false, "not an error") }
AssertIfErrorElse ==
    /\ pc = "if_let" /\ form = "assert_error"
    /\ input.tag # "Err"
    /\ panic' = Panic(TRUE, "not an error")
    /\ pc' = "exit"
    /\ UNCHANGED << mode, input, any, e, sel, site, env, evalCount, armLog, value, owner >>
    /\ usable' = ~PatternMoves(mode)
    /\ UNCHANGED << callVars, compileVars >>

\* match_err: if let Some(e) = $any.downcast_ref::<$ty>() { match e .. } else { $default }
Downcast ==
    /\ pc = "downcast" /\ form = "match_err"
    /\ e' = downcast_ref(any, "Error")
    /\ IF e'.some
       THEN pc' = "match" /\ site' = site
       ELSE pc' = "default" /\ site' = "no_downcast"
    /\ UNCHANGED << mode, input, any, sel, env, evalCount, armLog, value, owner, panic >>
    /\ UNCHANGED usable
    /\ UNCHANGED << callVars, compileVars >>

\* match e { $ty::$variant(ref ..) => $arm, .. _ => $default }: the arm is selected.
MatchVariant ==
    /\ pc = "match"
    /\ sel' = FirstMatch(arms, e.val.variant)
    /\ IF sel' # 0
       THEN /\ env' = Bind(arms[sel'].inner, e.val.payload)
            /\ pc' = "arm"
            /\ site' = site
       ELSE /\ env' = env
            /\ pc' = "default"
            /\ site' = "match"
    /\ UNCHANGED << mode, input, any, e, evalCount, armLog, value, owner, panic >>
    /\ UNCHANGED usable
    /\ UNCHANGED << callVars, compileVars >>

\* An arm that falls through to the default (the else of the expansion missing).
EvalArm_falls_through ==
    /\ pc = "arm"
    /\ value' = EvalExpr(arms[sel].expr, env)
    /\ armLog' = Append(armLog, sel)
    /\ pc' = "default"
    /\ UNCHANGED << mode, input, any, e, sel, site, env, evalCount, owner, panic >>
    /\ UNCHANGED usable
    /\ UNCHANGED << callVars, compileVars >>

\* The selected arm's expression is evaluated.
EvalArm ==
    /\ pc = "arm"
    /\ value' = EvalExpr(arms[sel].expr, env)
    /\ armLog' = Append(armLog, sel)
    /\ pc' = "exit"
    /\ UNCHANGED << mode, input, any, e, sel, site, env, evalCount, owner, panic >>
    /\ UNCHANGED usable
    /\ UNCHANGED << callVars, compileVars >>

\* One copy of $default is evaluated.
EvalDefault ==
    /\ pc = "default"
    /\ value' = EvalExpr(DefaultAt(site), <<>>)
    /\ armLog' = Append(armLog, 0)
    /\ pc' = "exit"
    /\ UNCHANGED << mode, input, any, e, sel, site, env, evalCount, owner, panic >>
    /\ UNCHANGED usable
    /\ UNCHANGED << callVars, compileVars >>

\* assert_error: Some(e) if e == &<$ty>::$variant(..) => assert!(true), _ => assert!(false, ..)
AssertMatch ==
    /\ pc = "downcast" /\ form = "assert_error"
    /\ e' = downcast_ref(any, "Error")
    /\ panic' = IF e'.some /\ EqualsExpected(e'.val, expected)
                THEN panic
                ELSE Panic(TRUE, AssertFalseMessage(umsg))
    /\ pc' = "exit"
    /\ UNCHANGED << mode, input, any, sel, site, env, evalCount, armLog, value, owner >>
    /\ UNCHANGED usable
    /\ UNCHANGED << callVars, compileVars >>

\* The expanded expression is left: an error bound by value is dropped with e.
Exit ==
    /\ pc = "exit"
    /\ owner' = IF owner = "macro" THEN "dropped" ELSE owner
    /\ pc' = IF panic.raised THEN "panicked" ELSE "done"
    /\ UNCHANGED << mode, input, any, e, sel, site, env, evalCount, armLog, value, panic >>
    /\ UNCHANGED usable
    /\ UNCHANGED << callVars, compileVars >>

Next ==
    \/ ExpandMatchErr
    \/ ElideMatchErr
    \/ ExpandMatchIfErr
    \/ ElideMatchIfErr
    \/ NoRuleMatches
    \/ TypeCheck
    \/ ExpandAssertIfError
    \/ ExpandAssertError
    \/ EvalInput
    \/ IfLetErr
    \/ MatchIfErrElse
    \/ AssertIfErrorElse
    \/ Downcast
    \/ MatchVariant
    \/ EvalArm
    \/ EvalDefault
    \/ AssertMatch
    \/ Exit

Spec == Init /\ [][Next]_vars

----------------------------------------------------------------------------
(* Vocabulary of the properties.                                           *)

Ran == pc \in { "done", "panicked" }
Terminated == Ran \/ pc = "compile_error"
Evaluated == pc \in { "if_let", "downcast", "match", "arm", "default", "exit", "done", "panicked" }

IntVal(n) == Val("Int", n)

\* The tokens of a written block that are arms naming a variant.
NamedBy(toks, variant) ==
    { i \in 1..Len(toks) : toks[i].kind = "arm" /\ toks[i].variant = variant }

FirstNamedBy(toks, variant) ==
    CHOOSE i \in NamedBy(toks, variant) : \A j \in NamedBy(toks, variant) : i <= j

\* The position of token i among the arms of the block.
ArmOrdinal(toks, i) == Cardinality({ j \in 1..i : toks[j].kind = "arm" })

HasDefault(toks) == \E i \in 1..Len(toks) : toks[i].kind = "default"

\* The value of the default as written; the unit value when none is written.
WrittenDefaultValue(toks) ==
    IF HasDefault(toks)
    THEN LET d == toks[CHOOSE i \in 1..Len(toks) : toks[i].kind = "default"].expr
         IN  IF d.k = "const" THEN IntVal(d.n) ELSE Unit
    ELSE Unit

\* The value of an arm's expression with its identifiers standing for the
\* payload's fields, position by position.
ArmValue(arm, payload) ==
    CASE arm.expr.k = "const" -> IntVal(arm.expr.n)
      [] arm.expr.k = "len" ->
            IntVal(Len(payload[CHOOSE j \in 1..Len(arm.inner) : arm.inner[j] = arm.expr.id]))
      [] OTHER -> Unit

\* The arm block with `, _ => ()` appended (after an optional trailing comma).
WithUnitDefault(toks) ==
    (IF Len(toks) > 0 /\ toks[Len(toks)].kind = "comma"
     THEN SubSeq(toks, 1, Len(toks) - 1) ELSE toks) \o << Comma, Default(UnitExpr) >>

NotFoundErr == Erased("Error", "NotFound", <<>>)

\* { NotFound => 1, Custom(_) => 2, _ => 3 }
BlockS1 ==
    << Arm("NotFound", <<>>, Const(1)), Comma, Arm("Custom", <<"_">>, Const(2)), Comma,
       Default(Const(3)) >>

\* { NotFound => 1, Custom(m) => 2, _ => 3 }
BlockS1Named ==
    << Arm("NotFound", <<>>, Const(1)), Comma, Arm("Custom", <<"m">>, Const(2)), Comma,
       Default(Const(3)) >>

\* { NotFound => 1, Custom(m) => length(m), _ => 3 }
BlockS2 ==
    << Arm("NotFound", <<>>, Const(1)), Comma, Arm("Custom", <<"m">>, LenOf("m")), Comma,
       Default(Const(3)) >>

\* { NotFound => 1, _ => 2 }
BlockS4 == << Arm("NotFound", <<>>, Const(1)), Comma, Default(Const(2)) >>

----------------------------------------------------------------------------
(* C1: variant dispatch.                                                   *)

\* C1 (as amended): when match_err is given an error carrying Error::V(payload)
\* and the arm block has an arm named V, the first arm named V is the one arm
\* evaluated, its identifiers are bound to the payload's fields in positional
\* order (the error stays the caller's), and the invocation's value is that
\* arm's value; { NotFound => 1, Custom(m) => 2, _ => 3 } yields 1 on NotFound
\* and Custom(m) => length(m) yields 1 on Custom("x").
C1_VariantDispatch ==
    (/\ pc = "done" /\ macro = "match_err"
     /\ input.err.ty = "Error"
     /\ NamedBy(written, input.err.variant) # {})
    => LET i == FirstNamedBy(written, input.err.variant)
           a == written[i]
       IN  /\ armLog = << ArmOrdinal(written, i) >>
           /\ Len(env) = Len(a.inner)
           /\ \A j \in 1..Len(env) :
                env[j].id = a.inner[j] /\ env[j].val = input.err.payload[j]
           /\ value = ArmValue(a, input.err.payload)
           /\ owner = "caller"
           /\ (written = BlockS1Named /\ input.err = NotFoundErr => value = IntVal(1))
           /\ (written = BlockS2 /\ input.err.payload = <<"x">> => value = IntVal(1))

\* A match_err over { Pair(a, b) => length(b), Custom(m) => length(m), _ => 3 }
\* has dispatched Custom("x") to the second arm, which yields 1.
C1_Witness ==
    /\ pc = "done" /\ macro = "match_err"
    /\ written = << Arm("Pair", <<"a", "b">>, LenOf("b")), Comma,
                    Arm("Custom", <<"m">>, LenOf("m")), Comma, Default(Const(3)) >>
    /\ input.err = Erased("Error", "Custom", <<"x">>)
    /\ armLog = <<2>>
    /\ value = IntVal(1)

\* C1 as stated: the invocation of its first example,
\* match_err(NotFound, Error, { NotFound => 1, Custom(_) => 2, _ => 3 }),
\* is evaluated and yields 1.
C1_AsStated ==
    (macro = "match_err" /\ written = BlockS1 /\ Terminated)
    => (pc = "done" /\ (input.err = NotFoundErr => value = IntVal(1)))

----------------------------------------------------------------------------
(* C2: default fallback.                                                   *)

\* C2: match_err evaluates the default arm, and yields its value, exactly when
\* the carried type is not Error or no arm names the carried variant.
C2_DefaultFallback ==
    (pc = "done" /\ macro = "match_err")
    => LET miss == \/ input.err.ty # "Error"
                   \/ NamedBy(written, input.err.variant) = {}
       IN  /\ (armLog = <<0>>) <=> miss
           /\ (\E k \in 1..Len(armLog) : armLog[k] = 0) <=> miss
           /\ miss => value = WrittenDefaultValue(written)

\* A match_err over { NotFound => 1, _ => 3 } was given an error of another
\* type (whose own variant is also called NotFound) and took the default.
C2_Witness ==
    /\ pc = "done" /\ macro = "match_err"
    /\ written = << Arm("NotFound", <<>>, Const(1)), Comma, Default(Const(3)) >>
    /\ input.err = Erased("Other", "NotFound", <<>>)
    /\ armLog = <<0>>
    /\ value = IntVal(3)

----------------------------------------------------------------------------
(* C3: exactly one arm.                                                    *)

\* C3: an invocation of match_err or match_if_err never has two arm expressions
\* evaluated, has exactly one evaluated when it is left, raises no failure, and
\* is never stuck before it is left.
C3_ExactlyOneArm ==
    macro \in MatchForms
    => /\ Len(armLog) <= 1
       /\ (pc \in { "exit", "done" } => Len(armLog) = 1)
       /\ ~panic.raised /\ pc # "panicked"
       /\ (Evaluated /\ pc # "done" => ENABLED Next)

\* A match_if_err whose arms do not list the carried variant Timeout has
\* evaluated one expression, the default.
C3_Witness ==
    /\ pc = "done" /\ macro = "match_if_err"
    /\ input = [tag |-> "Err", err |-> Erased("Error", "Timeout", <<>>)]
    /\ Len(CapturedArms(written)) = 2
    /\ armLog = <<0>>

----------------------------------------------------------------------------
(* C4: single evaluation.                                                  *)

\* C4: in match_err and match_if_err the first argument has been evaluated
\* exactly once from the moment it is evaluated on, and no arm is evaluated
\* before it.
C4_SingleEvaluation ==
    macro \in MatchForms
    => /\ (Evaluated => evalCount = 1)
       /\ (~Evaluated => evalCount = 0 /\ armLog = <<>>)
       /\ (armLog # <<>> => evalCount = 1)

\* A match_if_err has evaluated its result once and then the NotFound arm.
C4_Witness ==
    /\ pc = "done" /\ macro = "match_if_err"
    /\ input.tag = "Err" /\ input.err = NotFoundErr
    /\ evalCount = 1
    /\ armLog = <<1>>

----------------------------------------------------------------------------
(* C5: the result adapter.                                                 *)

\* C5: match_if_err on Ok evaluates the default arm and yields its value; on
\* Err(x) it evaluates the arm and yields the value match_err(x, ..) does;
\* { NotFound => 1, _ => 2 } yields 2 on Ok and 1 on Err(NotFound).
C5_ResultAdapter ==
    (pc = "done" /\ macro = "match_if_err")
    => /\ Len(armLog) = 1
       /\ input.tag = "Ok" => armLog = <<0>> /\ value = WrittenDefaultValue(written)
       /\ input.tag = "Err" => Outcome(armLog[1], value) = match_err(input.err, written)
       /\ (written = BlockS4 /\ input.tag = "Ok" => value = IntVal(2))
       /\ (written = BlockS4 /\ input.tag = "Err" /\ input.err = NotFoundErr => value = IntVal(1))

\* match_if_err(Ok(()), Error, { NotFound => 1, _ => 2 }) has yielded 2.
C5_Witness ==
    /\ pc = "done" /\ macro = "match_if_err"
    /\ written = BlockS4
    /\ input.tag = "Ok"
    /\ value = IntVal(2)

----------------------------------------------------------------------------
(* C6: default elision.                                                    *)

\* C6: a match_err or match_if_err whose arm block has no default yields what
\* the same block with `_ => ()` appended yields (the same arm, the unit value
\* on fallback); the empty block is accepted and always takes that default.
C6_DefaultElision ==
    (macro \in MatchForms /\ ~HasDefault(written))
    => /\ pc = "done" =>
            /\ Outcome(armLog[1], value) =
                  IF macro = "match_err"
                  THEN match_err(input.err, WithUnitDefault(written))
                  ELSE match_if_err(input, WithUnitDefault(written))
            /\ (armLog = <<0>> => value = Unit)
       /\ written = <<>> =>
            /\ pc # "compile_error"
            /\ (pc = "done" => armLog = <<0>> /\ value = Unit)

\* A match_err over { NotFound => (), Custom(m) => () }, no default written,
\* has selected the second arm for a Custom error.
C6_Witness ==
    /\ pc = "done" /\ macro = "match_err"
    /\ written = << Arm("NotFound", <<>>, UnitExpr), Comma, Arm("Custom", <<"m">>, UnitExpr) >>
    /\ input.err.variant = "Custom" /\ input.err.ty = "Error"
    /\ armLog = <<2>>

----------------------------------------------------------------------------
(* C7: assertion success.                                                  *)

\* The carried value is of type Error and equals the expected variant with the
\* expected payload.
CarriesExpected ==
    /\ input.err.ty = "Error"
    /\ input.err.variant = expected.variant
    /\ input.err.payload = expected.payload

\* C7: assert_error passes if and only if the error recovers as Error and
\* equals the expected variant and payload; otherwise it fails.
C7_AssertionSuccess ==
    (macro = "assert_error" /\ Ran)
    => /\ (pc = "done") <=> CarriesExpected
       /\ (pc = "panicked") <=> panic.raised
       /\ (pc = "panicked") <=> ~CarriesExpected

\* assert_error(Custom("other"), Error, Custom("internal")) has failed.
C7_Witness ==
    /\ macro = "assert_error" /\ pc = "panicked"
    /\ input.err = Erased("Error", "Custom", <<"other">>)
    /\ expected = Expected("Custom", <<"internal">>)

----------------------------------------------------------------------------
(* C8: the message of an assertion failure.                                *)

WrongError == input.tag \in { "Any", "Err" } /\ ~CarriesExpected

\* C8 (as amended): with a user message, assert_error and assert_if_error fail
\* with that message on a wrong variant, a wrong payload and a wrong concrete
\* type; assert_if_error on an Ok result fails with "not an error", which the
\* user message is no part of.
C8_FailureMessage ==
    (macro \in AssertForms /\ umsg # "" /\ Ran)
    => /\ WrongError => pc = "panicked" /\ panic.msg = umsg
       /\ input.tag = "Ok" => pc = "panicked" /\ panic.msg = "not an error" /\ panic.msg # umsg
       /\ pc = "panicked" => WrongError \/ input.tag = "Ok"

\* assert_if_error(Err(Custom("x")), Error, Custom("internal"), "invalid") has
\* failed with "invalid".
C8_Witness ==
    /\ macro = "assert_if_error" /\ pc = "panicked"
    /\ input = [tag |-> "Err", err |-> Erased("Error", "Custom", <<"x">>)]
    /\ expected = Expected("Custom", <<"internal">>)
    /\ umsg = "invalid"
    /\ panic.msg = "invalid"

\* C8 as stated: with a user message, every failure cause (the Ok result
\* included) fails with a message that holds the user message.
C8_AsStated ==
    (macro \in AssertForms /\ umsg # "" /\ Ran /\ (WrongError \/ input.tag = "Ok"))
    => (pc = "panicked" /\ panic.msg = umsg)

----------------------------------------------------------------------------
(* C9: assert_if_error on a result.                                        *)

\* C9: assert_if_error fails with "not an error" on Ok, and on Err(x) passes
\* or fails, with the same message, as assert_error(x, ..) does.
C9_AssertIfError ==
    (macro = "assert_if_error" /\ Ran)
    => /\ (pc = "panicked") <=> panic.raised
       /\ input.tag = "Ok" => pc = "panicked" /\ panic.msg = "not an error"
       /\ input.tag = "Err" => panic = assert_error(input.err, expected, umsg)

\* assert_if_error(Ok(()), Error, NotFound, "invalid") has failed with
\* "not an error".
C9_Witness ==
    /\ macro = "assert_if_error" /\ pc = "panicked"
    /\ input.tag = "Ok"
    /\ expected = Expected("NotFound", <<>>)
    /\ umsg = "invalid"
    /\ panic.msg = "not an error"

----------------------------------------------------------------------------
(* C10: mutation and ownership.                                            *)

\* The result forms were given the result by value (a variable).
ResultByValue ==
    /\ macro \in { "match_if_err", "assert_if_error" }
    /\ mode = "place"

====
